---------------------------- MODULE Spec2Model ----------------------------
(***************************************************************************)
(* The binary communicator of src/communication/communicator/binary.rs:    *)
(* one worker's Binary instance, the push endpoints (Observer) and pull    *)
(* multiplexers (BinaryPullable) its new_channel calls build, the mpsc     *)
(* queues between them and the networking threads, and the pull            *)
(* multiplexers of the remote workers its frames are addressed to.         *)
(***************************************************************************)
EXTENDS Integers, Sequences, FiniteSets, TLC

(* ------------------------------ bounds -------------------------------- *)
MaxWriters == 2
MaxInner == 2
MaxGraph == 0
MaxChannels == 2
MaxTime == 1
MaxRecord == 1
MaxBatch == 2
MaxOpens == 2
MaxGives == 2
MaxLocal == 1
MaxInject == 2
MaxExits == 1
MaxDataWriters == 1

VARIABLES
    index,         \* Binary.index: index of this worker
    graph,         \* Binary.graph
    inner_peers,   \* Binary.inner.peers(): workers sharing this process
    allocated,     \* Binary.allocated
    writers,       \* Binary.writers: per remote group, the registration queue of its writer thread
    readers,       \* Binary.readers: per remote group, the registration queue of its reader thread
    senders,       \* Binary.senders: per remote group, the outbound queue of (header, bytes)
    writer_live,   \* per remote group: the writer thread still holds its receivers
    reader_live,   \* per remote group: the reader thread still holds its receivers
    pushers,       \* per new_channel call, the vector of push endpoints it returned
    pullable,      \* the pull multiplexers, keyed by <<worker, channel>>
    panicked,      \* the workers whose thread has panicked
    ret,           \* the last call made and what it returned
    given,         \* per <<target, channel>>: the (time, batch) pairs accepted by a live outbound queue
    pulled,        \* per <<worker, channel>>: the (time, batch) pairs pull returned from the network
    count          \* how often each bounded operation has run

vars == <<index, graph, inner_peers, allocated, writers, readers, senders,
          writer_live, reader_live, pushers, pullable, panicked, ret,
          given, pulled, count>>

(* ------------------------------ values -------------------------------- *)
None == <<>>
Some(x) == <<x>>
is_some(o) == o # None
is_none(o) == o = None
unwrap(o) == o[1]

Times == 0..MaxTime
Records == 1..MaxRecord
Batches == UNION {[1..n -> Records] : n \in 0..MaxBatch}

peers == (Len(writers) + 1) * inner_peers
Workers == 0..(peers - 1)

(* std::sync::mpsc: a queue's messages in order; send appends while the    *)
(* receiving half is alive and otherwise returns Err and drops the message *)
mpsc_send(live, queue, msg) == IF live THEN Append(queue, msg) ELSE queue

\* Result::unwrap on the result of a send (lines 51 and 74): it returns only
\* when the receiving half was alive, and panics otherwise
Result_unwrap(live) == live

\* Result::ok on the result of a send (line 134) with the receiving half alive
\* or gone, the error dropped
Result_ok_unwrapped(live) == live

\* Result::ok on the result of a send (line 134): it returns in either case
Result_ok(live) == TRUE

(* --------------------------- new_channel ------------------------------ *)
own_group == index \div inner_peers

\* target_index with the group test of line 49 made strict
target_index_strict(w, counter) ==
    LET t == w * inner_peers + counter
    IN  IF w > index \div inner_peers THEN t + inner_peers ELSE t

\* target_index with the shift of line 49 left out
target_index_unshifted(w, counter) == w * inner_peers + counter

\* lines 46-49: the destination of the endpoint built for writer w, offset counter
target_index(w, counter) ==
    LET t == w * inner_peers + counter
    IN  IF w >= index \div inner_peers THEN t + inner_peers ELSE t

\* lines 52-58
MessageHeader(tgt) ==
    [graph |-> graph, channel |-> allocated, source |-> index,
     target |-> tgt, length |-> 0]

\* lines 93-100
Observer_new(header, sender) ==
    [kind |-> "Observer", header |-> header, sender |-> sender, time |-> None]

\* identity with the counter read after the increment of line 79
identity_next == <<index, graph, allocated + 1>>

\* the identity tuple of lines 51 and 74
identity == <<index, graph, allocated>>

\* writer_iterations with the inner loop left out
writer_iterations_per_group == Len(writers)

\* allocated_after with the increment of line 79 left out
allocated_after_same == allocated

\* lines 43-44: the iterations of the loop nest, inner_peers for each writer
writer_iterations == Len(writers) * inner_peers

\* line 79
allocated_after == allocated + 1

\* lines 43-61: iteration k of the flattened loop nest (writer k \div inner_peers,
\* counter k % inner_peers) applied to st = [writers, pushers, ok]; the unwrap of
\* line 51 ends the call at the first send that fails.
RECURSIVE writer_loop(_, _)
writer_loop(k, st) ==
    IF k >= writer_iterations \/ ~st.ok THEN st
    ELSE LET w == k \div inner_peers
             counter == k % inner_peers
         IN  IF ~Result_unwrap(writer_live[w + 1])
             THEN [st EXCEPT !.ok = FALSE]
             ELSE writer_loop(k + 1,
                    [writers |-> [st.writers EXCEPT ![w + 1] =
                                     mpsc_send(TRUE, @, [id |-> identity, s |-> <<allocated, k>>])],
                     pushers |-> Append(st.pushers,
                                     Observer_new(MessageHeader(target_index(w, counter)), w)),
                     ok |-> TRUE])

\* Process::new_channel of the local communicator: one push endpoint per
\* worker of this process other than the caller, in index order.
inner_sends ==
    LET offs == {c \in 0..(inner_peers - 1) : c # index % inner_peers}
        RECURSIVE build(_, _)
        build(c, acc) ==
            IF c >= inner_peers THEN acc
            ELSE build(c + 1, IF c \in offs
                              THEN Append(acc, [kind |-> "Process",
                                                target |-> own_group * inner_peers + c])
                              ELSE acc)
    IN  build(0, <<>>)

\* Vec::insert(pos, x), pos counted from 0
insert(vec, pos, x) ==
    SubSeq(vec, 1, pos) \o <<x>> \o SubSeq(vec, pos + 1, Len(vec))

\* lines 64-66
RECURSIVE splice(_, _, _)
splice(vec, locals, i) ==
    IF i >= Len(locals) THEN vec
    ELSE splice(insert(vec, ((index \div inner_peers) * inner_peers) + i, locals[i + 1]),
                locals, i + 1)

\* lines 71-75: reader r of the loop applied to st = [readers, ok]
RECURSIVE reader_loop(_, _)
reader_loop(r, st) ==
    IF r >= Len(readers) \/ ~st.ok THEN st
    ELSE IF ~Result_unwrap(reader_live[r + 1])
         THEN [st EXCEPT !.ok = FALSE]
         ELSE reader_loop(r + 1,
                [readers |-> [st.readers EXCEPT ![r + 1] =
                                 mpsc_send(TRUE, @, [id |-> identity,
                                                     send |-> allocated,
                                                     r |-> <<allocated, r>>])],
                 ok |-> TRUE])

\* lines 146-152
BinaryPullable_new == [inner |-> <<>>, current |-> None, receiver |-> <<>>]

Bump(op) == [count EXCEPT ![op] = @ + 1]

\* the record of a call: the operation, its argument, what it returned, by
\* which path, and whether it panicked
Ret(op, arg, val, via, fatal) ==
    [op |-> op, arg |-> arg, val |-> val, via |-> via, fatal |-> fatal]

\* lines 35-82
new_channel ==
    /\ index \notin panicked
    /\ allocated < MaxChannels
    /\ LET ws == writer_loop(0, [writers |-> writers, pushers |-> <<>>, ok |-> TRUE])
           rs == IF ws.ok THEN reader_loop(0, [readers |-> readers, ok |-> TRUE])
                 ELSE [readers |-> readers, ok |-> FALSE]
           vec == splice(ws.pushers, inner_sends, 0)
       IN  /\ writers' = ws.writers
           /\ readers' = rs.readers
           /\ IF ws.ok /\ rs.ok
              THEN /\ pushers' = Append(pushers, vec)
                   /\ pullable' = (<<index, allocated>> :> BinaryPullable_new) @@ pullable
                   /\ allocated' = allocated_after
                   /\ panicked' = panicked
                   /\ ret' = Ret("new_channel", None, Some(allocated), "", FALSE)
              ELSE /\ panicked' = panicked \cup {index}
                   /\ ret' = Ret("new_channel", None, None, "", TRUE)
                   /\ UNCHANGED <<pushers, pullable, allocated>>
    /\ UNCHANGED <<index, graph, inner_peers, senders, writer_live, reader_live,
                   given, pulled, count>>

(* ------------------------------ codec --------------------------------- *)
\* Serializable::encode of a time: two bytes, low byte first
encode_time(t) == <<t % 256, t \div 256>>

\* Serializable::encode of a Vec<D>: the record count, then one byte per record
encode_vec(vec) == <<Len(vec)>> \o vec

\* Serializable::decode of a time: the value and the remaining bytes, or None
\* when the buffer is too short to hold one
decode_time(bytes) ==
    IF Len(bytes) < 2 THEN None
    ELSE Some([t |-> bytes[1] + 256 * bytes[2], r |-> SubSeq(bytes, 3, Len(bytes))])

\* Message::from_bytes(bytes, offset): the records held in bytes[offset..], or
\* None when that range is not the encoding of a Vec
from_bytes(bytes, offset) ==
    LET view == SubSeq(bytes, offset + 1, Len(bytes))
    IN  IF view = <<>> \/ view[1] # Len(view) - 1 THEN None ELSE Some(Tail(view))

(* ----------------------------- Observer ------------------------------- *)
IsObserver(c, p) ==
    /\ c \in 0..(Len(pushers) - 1)
    /\ p \in DOMAIN pushers[c + 1]
    /\ pushers[c + 1][p].kind = "Observer"

\* open_assert with the assertion of line 108 left out
open_assert_off(ep) == TRUE

\* give_sends with the test of line 117 left out
give_sends_always(data) == TRUE

\* line 108: the assertion of open
open_assert(ep) == is_none(ep.time)

\* shut_assert with the time of the call compared to the time of the open
shut_assert_same_time(ep, time) == ep.time = Some(time)

\* lines 111-112: the assertion of shut; the argument _time is not read
shut_assert(ep, time) == is_some(ep.time)

\* line 116: the assertion of give
give_assert(ep) == is_some(ep.time)

\* line 117: give frames the batch only when it holds a record
give_sends(data) == Len(data) > 0

\* lines 107-110
open(c, p, time) ==
    /\ index \notin panicked
    /\ IsObserver(c, p)
    /\ count["open"] < MaxOpens
    /\ count' = Bump("open")
    /\ IF ~open_assert(pushers[c + 1][p])
       THEN /\ panicked' = panicked \cup {index}
            /\ ret' = Ret("open", Some(time), None, "", TRUE)
            /\ UNCHANGED pushers
       ELSE /\ pushers' = [pushers EXCEPT ![c + 1][p].time = Some(time)]
            /\ ret' = Ret("open", Some(time), None, "", FALSE)
            /\ UNCHANGED panicked
    /\ UNCHANGED <<index, graph, inner_peers, allocated, writers, readers, senders,
                   writer_live, reader_live, pullable, given, pulled>>

\* lines 111-114
shut(c, p, time) ==
    /\ index \notin panicked
    /\ IsObserver(c, p)
    /\ IF ~shut_assert(pushers[c + 1][p], time)
       THEN /\ panicked' = panicked \cup {index}
            /\ ret' = Ret("shut", Some(time), None, "", TRUE)
            /\ UNCHANGED pushers
       ELSE /\ pushers' = [pushers EXCEPT ![c + 1][p].time = None]
            /\ ret' = Ret("shut", Some(time), None, "", FALSE)
            /\ UNCHANGED panicked
    /\ UNCHANGED <<index, graph, inner_peers, allocated, writers, readers, senders,
                   writer_live, reader_live, pullable, given, pulled, count>>

\* frame with the batch encoded before the time
frame_data_first(ep, data) ==
    LET bytes == encode_vec(data) \o encode_time(unwrap(ep.time))
    IN  [header |-> [ep.header EXCEPT !.length = Len(bytes)], bytes |-> bytes]

\* frame with the header copied as stored, its length not set
frame_length_unset(ep, data) ==
    LET bytes == encode_time(unwrap(ep.time)) \o encode_vec(data)
    IN  [header |-> ep.header, bytes |-> bytes]

\* lines 123-132: the frame give builds for an endpoint and a batch
frame(ep, data) ==
    LET bytes == encode_time(unwrap(ep.time)) \o encode_vec(data)
    IN  [header |-> [ep.header EXCEPT !.length = Len(bytes)], bytes |-> bytes]

\* data_after_give with the batch cleared once framed
data_cleared(data) == <<>>

\* lines 125-129: the caller's batch when give returns; give reads it through
\* deref and does not clear it
data_after_give(data) == data

\* lines 115-137; the call record holds the batch as give found it and as give
\* left it
give(c, p, data) ==
    /\ index \notin panicked
    /\ IsObserver(c, p)
    /\ count["give"] < MaxGives
    /\ count' = Bump("give")
    /\ LET ep == pushers[c + 1][p]
           g == ep.sender + 1
           key == <<ep.header.target, ep.header.channel>>
           sent == give_sends(data)
           survived == ~sent \/ Result_ok(writer_live[g])
       IN  IF ~give_assert(ep)
           THEN /\ panicked' = panicked \cup {index}
                /\ ret' = Ret("give", Some(data), None, "", TRUE)
                /\ UNCHANGED <<senders, given>>
           ELSE /\ senders' = IF sent
                              THEN [senders EXCEPT ![g] =
                                       mpsc_send(writer_live[g], @, frame(ep, data))]
                              ELSE senders
                /\ given' = IF sent /\ writer_live[g] /\ key \in DOMAIN given
                            THEN [given EXCEPT ![key] = Append(@, <<unwrap(ep.time), data>>)]
                            ELSE given
                /\ panicked' = IF survived THEN panicked ELSE panicked \cup {index}
                /\ ret' = Ret("give", Some(data), Some(data_after_give(data)), "", ~survived)
    /\ UNCHANGED <<index, graph, inner_peers, allocated, writers, readers,
                   writer_live, reader_live, pushers, pullable, pulled>>

(* -------------------------- BinaryPullable ---------------------------- *)
\* decode_offset with the batch view taken from the start of the buffer
decode_offset_zero(x_len, r) == 0

\* line 165: the length of the prefix decode consumed for the time
decode_offset(x_len, r) == x_len - Len(r)

\* lines 161-170: the closure applied to the received bytes; None when decode's
\* unwrap or the batch's decoding fails
decoded(bytes) ==
    LET x_len == Len(bytes)
        d == decode_time(bytes)
    IN  IF is_none(d) THEN None
        ELSE LET o == decode_offset(x_len, unwrap(d).r)
                 m == from_bytes(bytes, o)
             IN  IF is_none(m) THEN None ELSE Some(<<unwrap(d).t, unwrap(m)>>)

\* current_on_empty with the batch decoded before kept
current_on_empty_kept(self) == self.current

\* line 161: what current becomes when try_recv yields no frame, the value
\* line 175 then returns
current_on_empty(self) == None

\* pull_assert with the assertion of line 173 left out
pull_assert_off(current) == TRUE

\* lines 172-174: the assertion on the batch just decoded
pull_assert(current) == Len(unwrap(current)[2]) > 0

\* inner_ready with the network taken first whenever it holds a frame
inner_ready_after_network(self) == self.inner # <<>> /\ self.receiver = <<>>

\* line 158: the local pull endpoint returns a pair
inner_ready(self) == self.inner # <<>>

\* lines 157-177, on the multiplexer of worker w for channel c
pull(w, c) ==
    /\ <<w, c>> \in DOMAIN pullable
    /\ w \notin panicked
    /\ LET k == <<w, c>>
           self == pullable[k]
       IN  IF inner_ready(self)
           THEN /\ pullable' = [pullable EXCEPT ![k].inner = Tail(@)]
                /\ ret' = Ret("pull", None, Some(Head(self.inner)), "local", FALSE)
                /\ UNCHANGED <<panicked, pulled>>
           ELSE IF self.receiver = <<>>
           THEN /\ pullable' = [pullable EXCEPT ![k].current = current_on_empty(self)]
                /\ ret' = Ret("pull", None, current_on_empty(self), "", FALSE)
                /\ UNCHANGED <<panicked, pulled>>
           ELSE LET bytes == Head(self.receiver)
                    cur == decoded(bytes)
                IN  IF is_none(cur)
                    THEN /\ pullable' = [pullable EXCEPT ![k].receiver = Tail(@)]
                         /\ panicked' = panicked \cup {w}
                         /\ ret' = Ret("pull", None, None, "net", TRUE)
                         /\ UNCHANGED pulled
                    ELSE IF ~pull_assert(cur)
                    THEN /\ pullable' = [pullable EXCEPT ![k].receiver = Tail(@),
                                                         ![k].current = cur]
                         /\ panicked' = panicked \cup {w}
                         /\ ret' = Ret("pull", None, None, "net", TRUE)
                         /\ UNCHANGED pulled
                    ELSE /\ pullable' = [pullable EXCEPT ![k].receiver = Tail(@),
                                                         ![k].current = cur]
                         /\ pulled' = [pulled EXCEPT ![k] = Append(@, unwrap(cur))]
                         /\ ret' = Ret("pull", None, cur, "net", FALSE)
                         /\ UNCHANGED panicked
    /\ UNCHANGED <<index, graph, inner_peers, allocated, writers, readers, senders,
                   writer_live, reader_live, pushers, given, count>>

(* ------------------------ networking threads -------------------------- *)
\* The writer thread of group g takes the next frame of its outbound queue; the
\* frame crosses the wire and the reader thread of the target's process puts its
\* bytes on the inbound queue of the target's multiplexer for header.channel.
net_deliver(g) ==
    /\ g \in DOMAIN senders
    /\ writer_live[g]
    /\ senders[g] # <<>>
    /\ LET f == Head(senders[g])
           k == <<f.header.target, f.header.channel>>
       IN  /\ senders' = [senders EXCEPT ![g] = Tail(@)]
           /\ pullable' = IF k \in DOMAIN pullable /\ k[1] # index
                          THEN [pullable EXCEPT ![k].receiver = Append(@, f.bytes)]
                          ELSE pullable
    /\ ret' = Ret("env", None, None, "", FALSE)
    /\ UNCHANGED <<index, graph, inner_peers, allocated, writers, readers,
                   writer_live, reader_live, pushers, panicked, given, pulled, count>>

\* the byte buffers a reader thread may hand to this worker: the frames remote
\* endpoints build, and buffers cut short or holding no record
InjectFrames ==
    {encode_time(t) \o encode_vec(b) : t \in Times, b \in Batches \ {<<>>}}
        \cup {<<0>>, encode_time(0) \o encode_vec(<<>>), encode_time(0)}

\* A reader thread that holds the sending handle registered for channel c puts
\* the bytes of a frame addressed to this worker on the channel's inbound queue.
net_inject(c, bytes) ==
    /\ <<index, c>> \in DOMAIN pullable
    /\ \E r \in DOMAIN readers :
          /\ reader_live[r]
          /\ \E i \in DOMAIN readers[r] : readers[r][i].send = c
    /\ count["inject"] < MaxInject
    /\ count' = Bump("inject")
    /\ pullable' = [pullable EXCEPT ![<<index, c>>].receiver = Append(@, bytes)]
    /\ ret' = Ret("env", None, None, "", FALSE)
    /\ UNCHANGED <<index, graph, inner_peers, allocated, writers, readers, senders,
                   writer_live, reader_live, pushers, panicked, given, pulled>>

\* A worker of this process gives (time, data) to its local push endpoint for
\* this worker: the pair joins the queue behind the local pull endpoint of
\* channel c.
local_give(c, time, data) ==
    /\ <<index, c>> \in DOMAIN pullable
    /\ inner_peers > 1
    /\ Len(data) > 0
    /\ count["local"] < MaxLocal
    /\ count' = Bump("local")
    /\ pullable' = [pullable EXCEPT ![<<index, c>>].inner = Append(@, <<time, data>>)]
    /\ ret' = Ret("env", None, None, "", FALSE)
    /\ UNCHANGED <<index, graph, inner_peers, allocated, writers, readers, senders,
                   writer_live, reader_live, pushers, panicked, given, pulled>>

\* The writer thread of group g exits: the receiving halves of its registration
\* queue and of its outbound queue are dropped with what they hold.
writer_exit(g) ==
    /\ g \in DOMAIN writers
    /\ writer_live[g]
    /\ count["exit"] < MaxExits
    /\ count' = Bump("exit")
    /\ writer_live' = [writer_live EXCEPT ![g] = FALSE]
    /\ writers' = [writers EXCEPT ![g] = <<>>]
    /\ senders' = [senders EXCEPT ![g] = <<>>]
    /\ ret' = Ret("env", None, None, "", FALSE)
    /\ UNCHANGED <<index, graph, inner_peers, allocated, readers, reader_live,
                   pushers, pullable, panicked, given, pulled>>

\* The reader thread of group g exits: the receiving half of its registration
\* queue is dropped with what it holds.
reader_exit(g) ==
    /\ g \in DOMAIN readers
    /\ reader_live[g]
    /\ count["exit"] < MaxExits
    /\ count' = Bump("exit")
    /\ reader_live' = [reader_live EXCEPT ![g] = FALSE]
    /\ readers' = [readers EXCEPT ![g] = <<>>]
    /\ ret' = Ret("env", None, None, "", FALSE)
    /\ UNCHANGED <<index, graph, inner_peers, allocated, writers, senders, writer_live,
                   pushers, pullable, panicked, given, pulled>>

(* ------------------------------- Init --------------------------------- *)
Ops == {"open", "give", "local", "inject", "exit"}

Init ==
    /\ inner_peers \in 1..MaxInner
    /\ \E g \in 0..MaxWriters :
          /\ writers = [w \in 1..g |-> <<>>]
          /\ readers = [w \in 1..g |-> <<>>]
          /\ senders = [w \in 1..g |-> <<>>]
          /\ writer_live = [w \in 1..g |-> TRUE]
          /\ reader_live = [w \in 1..g |-> TRUE]
          /\ index \in 0..((g + 1) * inner_peers - 1)
    /\ graph \in 0..MaxGraph
    /\ allocated = 0
    /\ pushers = <<>>
    /\ pullable = [k \in {<<w, c>> : w \in {x \in 0..((Len(writers) + 1) * inner_peers - 1) :
                                              x \div inner_peers # index \div inner_peers},
                                     c \in 0..(MaxChannels - 1)} |-> BinaryPullable_new]
    /\ panicked = {}
    /\ ret = Ret("init", None, None, "", FALSE)
    /\ given = [k \in (0..((Len(writers) + 1) * inner_peers - 1)) \X (0..(MaxChannels - 1)) |-> <<>>]
    /\ pulled = [k \in (0..((Len(writers) + 1) * inner_peers - 1)) \X (0..(MaxChannels - 1)) |-> <<>>]
    /\ count = [o \in Ops |-> 0]

AllWorkers == 0..((MaxWriters + 1) * MaxInner - 1)
AllChannels == 0..(MaxChannels - 1)
AllPositions == 1..((MaxWriters + 1) * MaxInner)

Next ==
    \/ new_channel
    \/ \E c \in AllChannels, p \in AllPositions, t \in Times : open(c, p, t)
    \/ \E c \in AllChannels, p \in AllPositions, t \in Times : shut(c, p, t)
    \/ \E c \in AllChannels, p \in AllPositions, b \in Batches : give(c, p, b)
    \/ \E w \in AllWorkers, c \in AllChannels : pull(w, c)
    \/ \E g \in 1..MaxWriters : net_deliver(g)
    \/ \E c \in AllChannels, bytes \in InjectFrames : net_inject(c, bytes)
    \/ \E c \in AllChannels, t \in Times, b \in Batches : local_give(c, t, b)
    \/ \E g \in 1..MaxWriters : writer_exit(g)
    \/ \E g \in 1..MaxWriters : reader_exit(g)

Spec == Init /\ [][Next]_vars

(* The specifications the claims are checked under: each holds new_channel   *)
(* and the operations that act on the state the claims checked under it are  *)
(* about.                                                                     *)

\* channel allocation, with the networking threads free to exit
NextAlloc ==
    \/ new_channel
    \/ \E g \in 1..MaxWriters : writer_exit(g)
    \/ \E g \in 1..MaxWriters : reader_exit(g)

SpecAlloc == Init /\ [][NextAlloc]_vars

\* the topologies of the specifications that move data
InitData == Init /\ Len(writers) <= MaxDataWriters

\* the push side: endpoints, outbound queues and the writer threads
NextPush ==
    \/ new_channel
    \/ \E c \in AllChannels, p \in AllPositions, t \in Times : open(c, p, t)
    \/ \E c \in AllChannels, p \in AllPositions, t \in Times : shut(c, p, t)
    \/ \E c \in AllChannels, p \in AllPositions, b \in Batches : give(c, p, b)
    \/ \E g \in 1..MaxWriters : net_deliver(g)
    \/ \E g \in 1..MaxWriters : writer_exit(g)

SpecPush == InitData /\ [][NextPush]_vars

\* the path of a frame from give to the pull of its target, threads alive
NextNet ==
    \/ new_channel
    \/ \E c \in AllChannels, p \in AllPositions, t \in Times : open(c, p, t)
    \/ \E c \in AllChannels, p \in AllPositions, t \in Times : shut(c, p, t)
    \/ \E c \in AllChannels, p \in AllPositions, b \in Batches : give(c, p, b)
    \/ \E g \in 1..MaxWriters : net_deliver(g)
    \/ \E w \in AllWorkers, c \in AllChannels : pull(w, c)

SpecNet == InitData /\ [][NextNet]_vars

\* the pull side of this worker: its multiplexers, fed by the workers of its
\* process and by the reader threads
NextPull ==
    \/ new_channel
    \/ \E w \in AllWorkers, c \in AllChannels : pull(w, c)
    \/ \E c \in AllChannels, bytes \in InjectFrames : net_inject(c, bytes)
    \/ \E c \in AllChannels, t \in Times, b \in Batches : local_give(c, t, b)
    \/ \E g \in 1..MaxWriters : reader_exit(g)

SpecPull == InitData /\ [][NextPull]_vars

\* the scenario of two peer groups of one worker each, with the writer threads
\* and the poll loops of the workers scheduled fairly
InitLive == Init /\ Len(writers) = 1 /\ inner_peers = 1

SpecLive ==
    /\ InitLive
    /\ [][NextNet]_vars
    /\ WF_vars(\E g \in 1..MaxWriters : net_deliver(g))
    /\ \A w \in AllWorkers, c \in AllChannels : WF_vars(pull(w, c))

\* one frame at a time between two workers, each a group of its own
SpecTrip == InitLive /\ [][NextNet]_vars

(* ------------------------------ claims -------------------------------- *)
\* the destination worker of a push endpoint
dest(ep) == IF ep.kind = "Process" THEN ep.target ELSE ep.header.target

\* C1: every vector of push endpoints new_channel returned is in strictly
\* increasing order of destination worker index, with the local endpoints
\* contiguous from position own_group * inner_peers (counted from 0) and the
\* remote endpoints before them addressed below the own group, those after
\* them above it.
C1_PushersOrdered ==
    \A k \in DOMAIN pushers :
        LET vec == pushers[k]
            first == own_group * inner_peers
            locals == {i \in DOMAIN vec : vec[i].kind = "Process"}
        IN  /\ \A i, j \in DOMAIN vec : i < j => dest(vec[i]) < dest(vec[j])
            /\ locals = {i \in DOMAIN vec : first < i /\ i <= first + Cardinality(locals)}
            /\ \A i \in DOMAIN vec \ locals :
                   IF i <= first THEN dest(vec[i]) < first
                   ELSE dest(vec[i]) >= first + inner_peers

\* C1 witness: a returned vector whose local endpoints sit between remote
\* endpoints (the caller's group is a middle one)
C1_Witness ==
    \E k \in DOMAIN pushers :
        \E i, j, l \in DOMAIN pushers[k] :
            /\ i < j /\ j < l
            /\ pushers[k][i].kind = "Observer"
            /\ pushers[k][j].kind = "Process"
            /\ pushers[k][l].kind = "Observer"

\* the channel ids carried by the endpoints and multiplexers built so far
UsedIds ==
    {pushers[k][i].header.channel :
        <<k, i>> \in {x \in (DOMAIN pushers) \X AllPositions :
                        x[2] \in DOMAIN pushers[x[1]] /\ pushers[x[1]][x[2]].kind = "Observer"}}
    \cup {k[2] : k \in {x \in DOMAIN pullable : x[1] = index}}

\* C4: allocated changes only in a completed new_channel call, which adds
\* exactly one; the id that call uses (allocated at its start) is greater than
\* every id used before, and is the id its endpoints and multiplexer carry.
C4_ChannelIdsIncrease ==
    [][/\ allocated' # allocated =>
            /\ ret'.op = "new_channel" /\ ~ret'.fatal
            /\ allocated' = allocated + 1
       /\ (ret'.op = "new_channel" /\ ~ret'.fatal) =>
            /\ allocated' = allocated + 1
            /\ ret'.val = Some(allocated)
            /\ \A id \in UsedIds : id < allocated
            /\ UsedIds' \ UsedIds = {allocated}
            /\ Len(pushers') = Len(pushers) + 1
            /\ \A i \in DOMAIN pushers'[Len(pushers')] :
                   pushers'[Len(pushers')][i].kind = "Observer" =>
                       pushers'[Len(pushers')][i].header.channel = allocated]_vars

\* C4 witness: two calls completed, the second with the greater id, with
\* endpoint operations made in between
C4_Witness ==
    /\ allocated = 2
    /\ ret.op = "new_channel" /\ ret.val = Some(1)
    /\ count["give"] > 0
    /\ \E i \in DOMAIN pushers[1] :
           pushers[1][i].kind = "Observer" /\ pushers[1][i].header.channel = 0
    /\ \E i \in DOMAIN pushers[2] :
           pushers[2][i].kind = "Observer" /\ pushers[2][i].header.channel = 1

\* C9: a new_channel call made while a writer or reader thread has exited
\* does not panic, returns its endpoints and increments allocated.
C9_RegistrationDropped ==
    [][(/\ ret'.op = "new_channel"
        /\ \E g \in DOMAIN writers : ~writer_live[g] \/ ~reader_live[g])
       => /\ ~ret'.fatal
          /\ panicked' = panicked
          /\ allocated' = allocated + 1
          /\ Len(pushers') = Len(pushers) + 1
          /\ <<index, allocated>> \in DOMAIN pullable']_vars

\* C10: a completed new_channel call returns one push endpoint for each worker
\* other than the caller (peers - 1 of them) and one pull endpoint; with no
\* remote group every endpoint is a local one and no registration queue exists.
C10_EndpointCount ==
    \A k \in DOMAIN pushers :
        /\ Len(pushers[k]) = peers - 1
        /\ {dest(pushers[k][i]) : i \in DOMAIN pushers[k]} = Workers \ {index}
        /\ <<index, k - 1>> \in DOMAIN pullable
        /\ Len(writers) = 0 =>
               /\ \A i \in DOMAIN pushers[k] : pushers[k][i].kind = "Process"
               /\ writers = <<>> /\ readers = <<>> /\ senders = <<>>

\* C10 witness: worker 0 of a single group of two workers holds one push
\* endpoint, the local one for worker 1
C10_Witness ==
    /\ Len(writers) = 0 /\ inner_peers = 2 /\ index = 0
    /\ Len(pushers) >= 1
    /\ Len(pushers[1]) = 1
    /\ pushers[1][1] = [kind |-> "Process", target |-> 1]

\* the endpoints built so far, as <<channel, position>>
Observers == {x \in AllChannels \X AllPositions : IsObserver(x[1], x[2])}

\* what each buffer of a sequence decodes to: Some (time, batch) pair, or None
decode_all(queue) == [i \in DOMAIN queue |-> decoded(queue[i])]

\* a sequence of pairs as the sequence of decodings it is to come from
some_all(pairs) == [i \in DOMAIN pairs |-> Some(pairs[i])]

\* the frames of the outbound queues addressed to key = <<target, channel>>
RECURSIVE in_flight(_, _)
in_flight(key, g) ==
    IF g > Len(senders) THEN <<>>
    ELSE LET mine == SelectSeq(senders[g], LAMBDA f : <<f.header.target, f.header.channel>> = key)
         IN  [i \in DOMAIN mine |-> mine[i].bytes] \o in_flight(key, g + 1)

C3_EndpointStateMachine ==
    [][/\ \A x \in Observers :
            LET c == x[1]
                p == x[2]
                t == pushers[c + 1][p].time
                tn == pushers'[c + 1][p].time
            IN  /\ \A time \in Times : open(c, p, time) =>
                       IF t = None THEN tn = Some(time) /\ panicked' = panicked
                       ELSE tn = t /\ index \in panicked' /\ ret'.fatal
                /\ \A time \in Times : shut(c, p, time) =>
                       IF t # None THEN tn = None /\ panicked' = panicked
                       ELSE tn = t /\ index \in panicked' /\ ret'.fatal
                /\ \A data \in Batches : give(c, p, data) =>
                       /\ tn = t
                       /\ IF t # None THEN panicked' = panicked /\ ~ret'.fatal
                          ELSE index \in panicked' /\ ret'.fatal /\ senders' = senders
                /\ tn # t => \/ ret'.op = "open" /\ t = None /\ tn = ret'.arg
                             \/ ret'.op = "shut" /\ tn = None
                /\ tn = None \/ \E time \in Times : tn = Some(time)
       /\ \A x \in Observers' \ Observers : pushers'[x[1] + 1][x[2]].time = None]_vars

\* C3 witness: an endpoint was opened, given to, shut and opened again
C3_Witness ==
    /\ ret.op = "open" /\ ~ret.fatal
    /\ count["open"] = 2 /\ count["give"] > 0
    /\ Cardinality(Observers) = 1
    /\ \A x \in Observers : pushers[x[1] + 1][x[2]].time = ret.arg

\* the <<target, channel>> pairs of the endpoints bound to outbound queue g
QueueKeys(g) ==
    {<<pushers[x[1] + 1][x[2]].header.target, pushers[x[1] + 1][x[2]].header.channel>> :
        x \in {y \in Observers : pushers[y[1] + 1][y[2]].sender + 1 = g}}

RECURSIVE SumOver(_, _)
SumOver(S, f) ==
    IF S = {} THEN 0
    ELSE LET k == CHOOSE k \in S : TRUE IN f[k] + SumOver(S \ {k}, f)

\* C6: a give of an empty batch leaves every outbound queue as it is; a give of
\* a non-empty batch appends one (header, buffer) pair to the endpoint's queue
\* and leaves the others; and the frames on a queue whose receiver is alive,
\* with those its writer thread has taken, are as many as the non-empty gives
\* made against it.
C6_EmptyBatchNotFramed ==
    [][/\ \A x \in Observers :
            LET c == x[1]
                p == x[2]
                ep == pushers[c + 1][p]
                g == ep.sender + 1
            IN  \A data \in Batches : (give(c, p, data) /\ ep.time # None) =>
                    IF data = <<>> THEN senders' = senders
                    ELSE IF ~writer_live[g] THEN senders' = senders
                    ELSE /\ Len(senders'[g]) = Len(senders[g]) + 1
                         /\ SubSeq(senders'[g], 1, Len(senders[g])) = senders[g]
                         /\ DOMAIN senders'[g][Len(senders'[g])] = {"header", "bytes"}
                         /\ \A h \in DOMAIN senders : h # g => senders'[h] = senders[h]
       /\ \A g \in DOMAIN senders' : writer_live'[g] =>
            Len(senders'[g])
              + SumOver(QueueKeys(g)', [k \in QueueKeys(g)' |-> Len(pullable'[k].receiver)])
              = SumOver(QueueKeys(g)', [k \in QueueKeys(g)' |-> Len(given'[k])])]_vars

\* C6 witness: after an empty and a non-empty give on an open endpoint the
\* outbound queue holds one frame
C6_Witness ==
    /\ ret.op = "give" /\ ret.arg = Some(<<>>) /\ ~ret.fatal
    /\ count["give"] = 2
    /\ \E g \in DOMAIN senders : writer_live[g] /\ Len(senders[g]) = 1
    /\ \A g \in DOMAIN senders : Len(senders[g]) <= 1
    /\ \A k \in DOMAIN pullable : pullable[k].receiver = <<>>

\* C8: on an endpoint whose outbound queue has lost its receiver, a give of a
\* non-empty batch does not panic, enqueues nothing and leaves the endpoint
\* open with its time, and give and shut keep their assertions and effects.
C8_SendFailureSwallowed ==
    [][\A x \in Observers :
          LET c == x[1]
              p == x[2]
              ep == pushers[c + 1][p]
          IN  ~writer_live[ep.sender + 1] =>
                /\ \A data \in Batches \ {<<>>} : (give(c, p, data) /\ ep.time # None) =>
                       /\ ~ret'.fatal /\ panicked' = panicked
                       /\ senders' = senders /\ pushers' = pushers
                /\ \A data \in Batches : (give(c, p, data) /\ ep.time = None) =>
                       index \in panicked'
                /\ \A time \in Times : (shut(c, p, time) /\ ep.time # None) =>
                       pushers'[c + 1][p].time = None /\ panicked' = panicked]_vars

\* C8 witness: with every writer thread gone, a non-empty give has returned,
\* after an earlier give, on an endpoint that is still open
C8_Witness ==
    /\ ret.op = "give" /\ ret.arg # Some(<<>>) /\ ~ret.fatal
    /\ count["give"] = 2
    /\ Len(writers) > 0 /\ \A g \in DOMAIN writer_live : ~writer_live[g]
    /\ \E x \in Observers : pushers[x[1] + 1][x[2]].time # None
    /\ \A g \in DOMAIN senders : senders[g] = <<>>
    /\ \A k \in DOMAIN given : given[k] = <<>>

\* C5: a pull on a multiplexer whose local endpoint has a pair returns that
\* pair; when the inbound queue holds a frame as well, the queue and current
\* are left as they were. A pull returns by the network path only when the
\* local endpoint had nothing.
C5_LocalPreferred ==
    [][\A key \in DOMAIN pullable :
          pull(key[1], key[2]) =>
             LET self == pullable[key]
             IN  /\ self.inner # <<>> =>
                    /\ ret'.via = "local" /\ ret'.val = Some(Head(self.inner))
                    /\ pullable'[key].receiver = self.receiver
                    /\ pullable'[key].current = self.current
                 /\ ret'.via = "net" => self.inner = <<>>]_vars

\* C5 witness: a pull has returned the local pair while the inbound queue holds
\* a frame and current holds the batch decoded before
C5_Witness ==
    /\ ret.op = "pull" /\ ret.via = "local"
    /\ \E c \in AllChannels :
          /\ <<index, c>> \in DOMAIN pullable
          /\ pullable[<<index, c>>].receiver # <<>>
          /\ pullable[<<index, c>>].current # None
          /\ pullable[<<index, c>>].inner = <<>>

\* C7: time and again every pair accepted by an outbound queue has been
\* returned, in its place, by the pull of its target, so each pair given is
\* pulled in the end; and a pull on a multiplexer with no local pair and no
\* frame returns nothing.
C7_EventuallyPulled ==
    /\ []<>(\A key \in DOMAIN given : pulled[key] = given[key])
    /\ [][\A key \in DOMAIN pullable :
             (/\ pull(key[1], key[2])
              /\ pullable[key].inner = <<>>
              /\ pullable[key].receiver = <<>>) => ret'.val = None]_vars

\* C7 witness: the remote worker has pulled the pair by the network path and
\* its next pull has returned nothing
C7_Witness ==
    /\ ret.op = "pull" /\ ret.val = None /\ ~ret.fatal
    /\ \E key \in DOMAIN pullable :
          /\ key[1] # index
          /\ Len(pulled[key]) = 1 /\ pulled[key] = given[key]
          /\ pullable[key].current = None
          /\ pullable[key].receiver = <<>>

\* C11: the buffer give builds for time t and a non-empty batch b is encode(t)
\* followed by encode(b); decoding it yields (t, b) with the decode offset the
\* length of encode(t); and a pull that takes the buffer from the inbound
\* queue returns exactly (t, b).
C11_FrameRoundTrip ==
    [][/\ \A x \in Observers :
            LET c == x[1]
                p == x[2]
                ep == pushers[c + 1][p]
                g == ep.sender + 1
            IN  \A data \in Batches \ {<<>>} :
                    (give(c, p, data) /\ ep.time # None /\ writer_live[g]) =>
                        LET t == unwrap(ep.time)
                            bytes == senders'[g][Len(senders'[g])].bytes
                            d == decode_time(bytes)
                        IN  /\ bytes = encode_time(t) \o encode_vec(data)
                            /\ is_some(d)
                            /\ decode_offset(Len(bytes), unwrap(d).r) = Len(encode_time(t))
                            /\ SubSeq(bytes, Len(encode_time(t)) + 1, Len(bytes)) = encode_vec(data)
                            /\ decoded(bytes) = Some(<<t, data>>)
       /\ \A key \in DOMAIN pullable :
            (/\ pull(key[1], key[2])
             /\ pullable[key].inner = <<>>
             /\ pullable[key].receiver # <<>>) =>
                \E t \in Times, b \in Batches \ {<<>>} :
                    /\ Head(pullable[key].receiver) = encode_time(t) \o encode_vec(b)
                    /\ ret'.val = Some(<<t, b>>) /\ ~ret'.fatal
                    /\ pullable'[key].current = Some(<<t, b>>)]_vars

\* C11 witness: the remote worker's pull has returned time 1 with a batch of
\* two records, the pair given
C11_Witness ==
    /\ ret.op = "pull" /\ ret.via = "net"
    /\ ret.val = Some(<<1, <<1, 1>>>>)
    /\ \E key \in DOMAIN pullable :
          /\ key[1] # index
          /\ given[key] = <<<<1, <<1, 1>>>>>>
          /\ pulled[key] = given[key]

\* the reader threads that hold a sending handle to the inbound queue of this
\* worker's channel c
Producers(c) ==
    {r \in DOMAIN readers :
        reader_live[r] /\ \E i \in DOMAIN readers[r] : readers[r][i].send = c}

\* C12: a pull can be taken on every multiplexer of a worker that runs, and
\* is one step; it returns nothing exactly when the local endpoint had no pair
\* and the inbound queue no frame, whether or not a reader thread still holds
\* a sending handle, and then current is None afterwards; current is at any
\* time None or one decoded pair.
C12_PullNeverWaits ==
    /\ [](\A key \in DOMAIN pullable :
            /\ key[1] \notin panicked => ENABLED pull(key[1], key[2])
            /\ \/ pullable[key].current = None
               \/ \E t \in Times, b \in Batches : pullable[key].current = Some(<<t, b>>))
    /\ [][\A key \in DOMAIN pullable :
             pull(key[1], key[2]) =>
                LET self == pullable[key]
                    nothing == self.inner = <<>> /\ self.receiver = <<>>
                IN  /\ ret'.op = "pull"
                    /\ nothing => /\ ~ret'.fatal /\ ret'.val = None
                                  /\ pullable'[key].current = None
                                  /\ panicked' = panicked
                    /\ (~ret'.fatal /\ ret'.val = None) => nothing
                    /\ (~nothing /\ ~ret'.fatal) => is_some(ret'.val)]_vars

\* C12 witness: after a pull that decoded a batch, the reader thread exited
\* and the next pull, with no sending handle left, returned nothing and
\* dropped the batch
C12_Witness ==
    /\ ret.op = "pull" /\ ret.val = None /\ ~ret.fatal
    /\ \E c \in AllChannels :
          /\ <<index, c>> \in DOMAIN pullable
          /\ Len(pulled[<<index, c>>]) > 0
          /\ pullable[<<index, c>>].current = None
          /\ pullable[<<index, c>>].receiver = <<>>
          /\ Producers(c) = {}
    /\ \A k \in DOMAIN pullable : k[1] = index => pullable[k].inner = <<>>

\* the remote endpoints of a returned vector, in the order of the vector
RemoteOf(vec) == SelectSeq(vec, LAMBDA ep : ep.kind = "Observer")

\* C13: in every vector new_channel returned, the remote endpoint built for
\* writer g and offset c is addressed to g * inner_peers + c when g is below
\* the own group and to (g + 1) * inner_peers + c otherwise; the targets of the
\* remote endpoints are the workers outside the own group, each once, none in
\* the own group and none at or above (G + 1) * inner_peers.
C13_RemoteTargets ==
    \A k \in DOMAIN pushers :
        LET rem == RemoteOf(pushers[k])
            G == Len(writers)
            P == inner_peers
            own == {x \in Workers : x \div P = own_group}
        IN  /\ Len(rem) = G * P
            /\ \A g \in 0..(G - 1), c \in 0..(P - 1) :
                   LET ep == rem[g * P + c + 1]
                   IN  /\ ep.sender = g
                       /\ ep.header.target = IF g < own_group THEN g * P + c
                                              ELSE (g + 1) * P + c
            /\ {rem[i].header.target : i \in DOMAIN rem} = Workers \ own
            /\ \A i, j \in DOMAIN rem : i # j => rem[i].header.target # rem[j].header.target
            /\ \A i \in DOMAIN rem :
                   /\ rem[i].header.target \notin own
                   /\ rem[i].header.target < (G + 1) * P
                   /\ rem[i].header.target # index

\* C13 witness: a worker of the middle group of three, two workers each, holds
\* remote endpoints for workers 0, 1 and 4, 5
C13_Witness ==
    /\ Len(writers) = 2 /\ inner_peers = 2 /\ own_group = 1
    /\ Len(pushers) >= 1
    /\ [i \in 1..4 |-> RemoteOf(pushers[1])[i].header.target] = <<0, 1, 4, 5>>

\* C14: every frame on an outbound queue carries the graph, channel, source
\* and target of an endpoint bound to that queue, built with the worker's graph
\* and index and its call's channel id, and as length the size of the frame's
\* buffer; every endpoint's stored header keeps length 0 and no step changes a
\* stored header.
C14_HeaderPerFrame ==
    /\ [](/\ \A g \in DOMAIN senders : \A i \in DOMAIN senders[g] :
                LET f == senders[g][i]
                IN  /\ f.header.length = Len(f.bytes)
                    /\ f.header.length > 0
                    /\ f.header.graph = graph /\ f.header.source = index
                    /\ \E x \in Observers :
                          LET ep == pushers[x[1] + 1][x[2]]
                          IN  /\ ep.sender + 1 = g
                              /\ ep.header.channel = x[1]
                              /\ f.header = [ep.header EXCEPT !.length = Len(f.bytes)]
           /\ \A x \in Observers : pushers[x[1] + 1][x[2]].header.length = 0)
    /\ [][\A x \in Observers :
             pushers'[x[1] + 1][x[2]].header = pushers[x[1] + 1][x[2]].header]_vars

\* C14 witness: one endpoint has given two batches of different sizes and the
\* two frames on its queue carry their own lengths
C14_Witness ==
    /\ Cardinality(Observers) = 1
    /\ ret.op = "give"
    /\ \E g \in DOMAIN senders :
          /\ Len(senders[g]) = 2
          /\ senders[g][1].header.length = 4
          /\ senders[g][2].header.length = 5

\* C15: the inbound queue of each channel built has at most one reader thread
\* holding a sending handle to it, and one consumer, the channel's multiplexer.
C15_SingleProducer ==
    \A c \in 0..(allocated - 1) :
        /\ <<index, c>> \in DOMAIN pullable
        /\ \A r1, r2 \in Producers(c) : r1 = r2

\* the messages a step has appended to registration queue g of queues q
Appended(q, qn, g) == SubSeq(qn[g], Len(q[g]) + 1, Len(qn[g]))

\* C16: every registration message a new_channel call sends, to writer and to
\* reader threads, carries (index, graph, allocated at the start of the call),
\* and so does every remote endpoint header of the vector it returns; the
\* counter moves only with the return of the call, so every message on a
\* registration queue carries an id below allocated.
C16_OneIdentityPerCall ==
    /\ [](\A g \in DOMAIN writers :
            /\ \A i \in DOMAIN writers[g] :
                   /\ writers[g][i].id[1] = index /\ writers[g][i].id[2] = graph
                   /\ writers[g][i].id[3] < allocated \/ index \in panicked
                   /\ writers[g][i].id[3] <= allocated
            /\ \A i \in DOMAIN readers[g] :
                   /\ readers[g][i].id[1] = index /\ readers[g][i].id[2] = graph
                   /\ readers[g][i].id[3] < allocated \/ index \in panicked
                   /\ readers[g][i].id[3] <= allocated)
    /\ [][new_channel =>
            LET id == <<index, graph, allocated>>
            IN  /\ \A g \in DOMAIN writers :
                      /\ \A i \in DOMAIN Appended(writers, writers', g) :
                             Appended(writers, writers', g)[i].id = id
                      /\ \A i \in DOMAIN Appended(readers, readers', g) :
                             Appended(readers, readers', g)[i].id = id
                /\ ~ret'.fatal =>
                      /\ allocated' = allocated + 1
                      /\ \A g \in DOMAIN writers :
                             /\ Appended(writers, writers', g) # <<>>
                             /\ Appended(readers, readers', g) # <<>>
                      /\ LET rem == RemoteOf(pushers'[Len(pushers')])
                         IN  \A i \in DOMAIN rem :
                                <<rem[i].header.source, rem[i].header.graph,
                                  rem[i].header.channel>> = id
                /\ ret'.fatal => allocated' = allocated]_vars

\* C16 witness: after two calls with two remote groups, each registration
\* queue holds the messages of call 0 and then those of call 1
C16_Witness ==
    /\ allocated = 2 /\ Len(writers) = 2 /\ inner_peers = 2
    /\ \A g \in DOMAIN writers :
          /\ [i \in DOMAIN writers[g] |-> writers[g][i].id[3]] = <<0, 0, 1, 1>>
          /\ [i \in DOMAIN readers[g] |-> readers[g][i].id[3]] = <<0, 1>>

\* C17: a pull that takes from the inbound queue a buffer too short to hold a
\* time, or one whose batch part holds no record, panics; a pull that returns
\* a pair by the network path returns a non-empty batch; and the multiplexer
\* of a worker that has not panicked holds in current nothing or a non-empty
\* batch.
C17_CorruptFrameFatal ==
    /\ [](\A key \in DOMAIN pullable :
            key[1] \notin panicked =>
                \/ pullable[key].current = None
                \/ Len(unwrap(pullable[key].current)[2]) > 0)
    /\ [][\A key \in DOMAIN pullable :
             (/\ pull(key[1], key[2])
              /\ pullable[key].inner = <<>>
              /\ pullable[key].receiver # <<>>) =>
                LET bytes == Head(pullable[key].receiver)
                    d == decode_time(bytes)
                    zero == /\ is_some(d)
                            /\ SubSeq(bytes, Len(bytes) - Len(unwrap(d).r) + 1, Len(bytes))
                                  = encode_vec(<<>>)
                IN  /\ (is_none(d) \/ zero) =>
                          /\ ret'.fatal /\ ret'.val = None
                          /\ key[1] \in panicked'
                          /\ pulled' = pulled
                    /\ ~ret'.fatal =>
                          /\ is_some(ret'.val)
                          /\ Len(unwrap(ret'.val)[2]) > 0
                          /\ pullable'[key].current = ret'.val]_vars

\* C17 witness: after a pull that returned a batch, the next pull took a
\* buffer holding a time and no record, and panicked
C17_Witness ==
    /\ ret.op = "pull" /\ ret.fatal
    /\ index \in panicked
    /\ \E c \in AllChannels :
          /\ <<index, c>> \in DOMAIN pullable
          /\ Len(pulled[<<index, c>>]) = 1
          /\ pullable[<<index, c>>].current = Some(<<0, <<>>>>)

\* C18: a give on an open endpoint leaves the caller's batch with the records
\* it had, the endpoint open with its time, and everything but the endpoint's
\* outbound queue as it was; the frame it enqueues is the frame the endpoint
\* would build again from the batch as left, so a batch given twice in a row
\* yields two equal frames.
C18_GiveOnlyEnqueues ==
    [][\A x \in Observers :
          LET c == x[1]
              p == x[2]
              ep == pushers[c + 1][p]
              g == ep.sender + 1
          IN  \A data \in Batches : (give(c, p, data) /\ ep.time # None) =>
                  /\ ret'.val = Some(data)
                  /\ pushers' = pushers
                  /\ pushers'[c + 1][p].time = ep.time
                  /\ UNCHANGED <<index, graph, inner_peers, allocated, writers, readers,
                                 writer_live, reader_live, pullable, panicked>>
                  /\ \A h \in DOMAIN senders : h # g => senders'[h] = senders[h]
                  /\ (data # <<>> /\ writer_live[g]) =>
                        /\ senders'[g] = Append(senders[g],
                                                frame(pushers'[c + 1][p], unwrap(ret'.val)))
                        /\ (/\ ret.op = "give" /\ ret.arg = Some(data) /\ ~ret.fatal
                            /\ Cardinality(Observers) = 1) =>
                               /\ senders[g] # <<>>
                               /\ senders'[g][Len(senders'[g])] = senders[g][Len(senders[g])]]_vars

\* C18 witness: one endpoint has given the same batch twice and its queue
\* holds two equal frames
C18_Witness ==
    /\ ret.op = "give" /\ ret.arg = Some(<<1, 1>>) /\ ret.val = ret.arg
    /\ Cardinality(Observers) = 1
    /\ \A x \in Observers : pushers[x[1] + 1][x[2]].time # None
    /\ \E g \in DOMAIN senders :
          /\ Len(senders[g]) = 2
          /\ senders[g][1] = senders[g][2]
          /\ senders[g][1].bytes = encode_time(unwrap(pushers[1][1].time)) \o encode_vec(<<1, 1>>)

\* the time a frame carries
frame_time(f) == unwrap(decode_time(f.bytes)).t

\* C19: a shut on an open endpoint closes it and does not panic, whatever its
\* time argument; an endpoint's time becomes a value only by an open, the
\* value of that open; and every frame a give enqueues carries the time of
\* the endpoint, that of its most recent open.
C19_ShutIgnoresTime ==
    [][\A x \in Observers :
          LET c == x[1]
              p == x[2]
              ep == pushers[c + 1][p]
              g == ep.sender + 1
              tn == pushers'[c + 1][p].time
          IN  /\ \A time \in Times : (shut(c, p, time) /\ ep.time # None) =>
                     /\ tn = None
                     /\ ~ret'.fatal /\ panicked' = panicked
                     /\ senders' = senders
              /\ \A data \in Batches \ {<<>>} :
                     (give(c, p, data) /\ ep.time # None /\ writer_live[g]) =>
                         frame_time(senders'[g][Len(senders'[g])]) = unwrap(ep.time)
              /\ (tn # ep.time /\ tn # None) =>
                     /\ ret'.op = "open" /\ tn = ret'.arg /\ ep.time = None]_vars

\* C19 witness: an endpoint opened once with time 1 has given a batch and was
\* shut with time 0; it is closed and its frame carries time 1
C19_Witness ==
    /\ ret.op = "shut" /\ ret.arg = Some(0) /\ ~ret.fatal
    /\ count["open"] = 1 /\ count["give"] = 1
    /\ Cardinality(Observers) = 1
    /\ \A x \in Observers : pushers[x[1] + 1][x[2]].time = None
    /\ \E g \in DOMAIN senders :
          Len(senders[g]) = 1 /\ frame_time(senders[g][1]) = 1

\* C20: a new_channel call appends to the registration queue of every writer
\* thread that runs inner_peers messages, all with the identity of the call,
\* and to the registration queue of every reader thread that runs one message;
\* with no remote group there is no queue and no message.
C20_RegistrationCounts ==
    [][new_channel =>
          /\ \A g \in DOMAIN writers :
                 writer_live[g] =>
                    /\ Len(Appended(writers, writers', g)) = inner_peers
                    /\ \A i \in DOMAIN Appended(writers, writers', g) :
                           Appended(writers, writers', g)[i].id = <<index, graph, allocated>>
          /\ \A g \in DOMAIN readers :
                 reader_live[g] => Len(Appended(readers, readers', g)) = 1
          /\ Len(writers) = 0 => writers' = <<>> /\ readers' = <<>>]_vars
=============================================================================
